---- MODULE Spec2Model ----
(***************************************************************************)
(* Model of the ballast collector: the generational BumpHeap               *)
(* (src/src/bump_heap.rs), the segregated FreeList and its PocketSize      *)
(* classes (src/src/free_list.rs) and the stand-alone SweepHeap            *)
(* (src/src/sweep_heap.rs).                                                *)
(*                                                                         *)
(* Memory is byte addressed.  A payload of size s and value v is s bytes   *)
(* that all hold v; the memory is kept as a set of extents                 *)
(* [lo, hi) -> val of equal non-zero bytes, every byte outside them is 0.  *)
(***************************************************************************)
EXTENDS Integers, Sequences, FiniteSets, TLC

(* ------------------------------ bounds -------------------------------- *)
\* log2 of the page size returned by memory::page_size()
PageLog2 == 5
\* number of alloc calls made on one heap
MaxAllocs == 2
\* number of scavenge, major and collect calls the client makes itself
MaxCycles == 3
\* number of root calls made on one SweepHeap
MaxRoots == 1
\* largest argument next_up is applied to, beyond HUGE_POCKET
MaxPocketArg == 32800
\* number of alloc calls of a program that releases each handle at once
MaxChurn == 5

(* ------------------------- program constants -------------------------- *)
KILOBYTE == 1024
MINI_POCKET == 1
TINY_POCKET == 32
SMALL_POCKET == 128
MEDIUM_POCKET == KILOBYTE * 2
LARGE_POCKET == KILOBYTE * 8
HUGE_POCKET == KILOBYTE * 32

\* BumpOptions::default
DefaultYoung == 1024 * 4
DefaultOld == 1024 * 2
\* memory::page_size() on the common targets (and under miri)
DefaultPage == 4096
\* the number of objects tests::allocate_into_major allocates and retains
TestAllocs == 4000

RECURSIVE Pow2(_)
Pow2(n) == IF n = 0 THEN 1 ELSE 2 * Pow2(n - 1)

page_size == Pow2(PageLog2)

Min(a, b) == IF a < b THEN a ELSE b
Max(a, b) == IF a > b THEN a ELSE b

\* size_of::<HeapValue<usize>>()
WordSize == 8
\* what a client program is run with: the heap it constructs, with the
\* BumpOptions of BumpHeap::new or the size of SweepHeap::new (old), and the
\* sizes of the payload types it allocates (a zero-sized type, a byte, a
\* word, arrays larger than the largest pocket); the last SweepHeap is a
\* whole number of pockets large
Scenarios ==
    { [heap |-> "BumpHeap", young |-> 8, old |-> 56, sizes |-> {1, WordSize}],
      [heap |-> "BumpHeap", young |-> 32, old |-> 16, sizes |-> {0, 1}],
      [heap |-> "BumpHeap", young |-> HUGE_POCKET + 32, old |-> 64,
       sizes |-> {WordSize, HUGE_POCKET + 1, 2 * HUGE_POCKET}],
      [heap |-> "SweepHeap", young |-> 0, old |-> 72, sizes |-> {WordSize}],
      [heap |-> "SweepHeap", young |-> 0, old |-> 2 * TINY_POCKET, sizes |-> {WordSize}] }
\* the sizes of the types T that SweepHeap::get::<T> and write::<T> are called
\* with: the allocated ones and one larger than their pocket
AccessSizes(allocated) == allocated \cup {TINY_POCKET + WordSize}
\* a byte no alloc call stores: what write and other owners store
PoisonByte == MaxAllocs + 1

(* ------------------------------ memory -------------------------------- *)
\* write_bytes(0, ..) over [lo, hi): the extents are trimmed to the outside
Clear(m, lo, hi) ==
    IF hi <= lo THEN m
    ELSE { [lo |-> e.lo, hi |-> Min(e.hi, lo), val |-> e.val] : e \in {x \in m : x.lo < lo} }
         \cup
         { [lo |-> Max(e.lo, hi), hi |-> e.hi, val |-> e.val] : e \in {x \in m : x.hi > hi} }

\* ptr.write(value): size bytes holding val at p
Store(m, p, size, val) ==
    IF size = 0 THEN m
    ELSE Clear(m, p, p + size)
         \cup (IF val = 0 THEN {} ELSE {[lo |-> p, hi |-> p + size, val |-> val]})

\* ptr::copy(src, dst, size): the source bytes are read before any is written
Copy(m, src, dst, size) ==
    IF size = 0 THEN m
    ELSE LET from == {e \in m : e.lo < src + size /\ e.hi > src}
             moved == { [lo |-> Max(e.lo, src) - src + dst,
                          hi |-> Min(e.hi, src + size) - src + dst,
                          val |-> e.val] : e \in from }
         IN Clear(m, dst, dst + size) \cup moved

\* the set of byte values held by [p, p + size)
Bytes(m, p, size) ==
    IF size = 0 THEN {}
    ELSE LET over == {e \in m : e.lo < p + size /\ e.hi > p}
             starts == {p} \cup {e.hi : e \in {x \in over : x.hi < p + size}}
             covered == \A a \in starts : \E e \in over : e.lo <= a /\ a < e.hi
         IN {e.val : e \in over} \cup (IF covered THEN {} ELSE {0})

(* --------------------------- size classes ----------------------------- *)
Pockets == <<"Mini", "Tiny", "Small", "Medium", "Large", "Huge">>
MEMORY_POCKETS == <<MINI_POCKET, TINY_POCKET, SMALL_POCKET, MEDIUM_POCKET, LARGE_POCKET, HUGE_POCKET>>
NUMBER_MEMORY_POCKETS == Len(MEMORY_POCKETS)

\* PocketSize::index, 0-based as in the source
PocketIndex(pocket) == CHOOSE i \in 0..(NUMBER_MEMORY_POCKETS - 1) : Pockets[i + 1] = pocket
\* PocketSize::size
PocketBytes(pocket) == MEMORY_POCKETS[PocketIndex(pocket) + 1]

\* next_up with the strict comparisons of PocketSize::next_down
next_up_strict(size) ==
    IF ~(size >= MINI_POCKET) THEN "Panic"
    ELSE IF size < MINI_POCKET THEN "Mini"
    ELSE IF size < TINY_POCKET THEN "Tiny"
    ELSE IF size < SMALL_POCKET THEN "Small"
    ELSE IF size < MEDIUM_POCKET THEN "Medium"
    ELSE IF size < LARGE_POCKET THEN "Large"
    ELSE IF size < HUGE_POCKET THEN "Huge"
    ELSE "None"

\* PocketSize::next_up: "Panic" is the failed assert!, "None" is Option::None
next_up(size) ==
    IF ~(size >= MINI_POCKET) THEN "Panic"
    ELSE IF size <= MINI_POCKET THEN "Mini"
    ELSE IF size <= TINY_POCKET THEN "Tiny"
    ELSE IF size <= SMALL_POCKET THEN "Small"
    ELSE IF size <= MEDIUM_POCKET THEN "Medium"
    ELSE IF size <= LARGE_POCKET THEN "Large"
    ELSE IF size <= HUGE_POCKET THEN "Huge"
    ELSE "None"

\* PocketSize::from_pocket_size
from_pocket_size(size) ==
    IF size = MINI_POCKET THEN "Mini"
    ELSE IF size = TINY_POCKET THEN "Tiny"
    ELSE IF size = SMALL_POCKET THEN "Small"
    ELSE IF size = MEDIUM_POCKET THEN "Medium"
    ELSE IF size = LARGE_POCKET THEN "Large"
    ELSE IF size = HUGE_POCKET THEN "Huge"
    ELSE "Panic"

(* ------------------------------ FreeList ------------------------------ *)
\* FreeList::new; carved is history: the slots cut from the bump frontier so
\* far, each with the size of the class it was cut for
FreeListNew(start, size) ==
    [start |-> start, current |-> start, size |-> size,
     pockets |-> [i \in 1..NUMBER_MEMORY_POCKETS |-> <<>>],
     carved |-> {}]

\* FreeList::alloc returning the requested size in place of the pocket's
FreeListAllocExact(fl, size) ==
    LET pocket == next_up(size) IN
    IF pocket = "Panic" THEN [status |-> "panic", ptr |-> 0, pocket_size |-> 0, fl |-> fl]
    ELSE IF pocket = "None" THEN [status |-> "none", ptr |-> 0, pocket_size |-> 0, fl |-> fl]
    ELSE LET idx == PocketIndex(pocket) + 1
             psz == PocketBytes(pocket)
         IN IF fl.current + psz < fl.start + fl.size
            THEN [status |-> "some", ptr |-> fl.current, pocket_size |-> size,
                  fl |-> [fl EXCEPT !.current = fl.current + psz,
                                    !.carved = @ \cup {[ptr |-> fl.current, size |-> psz]}]]
            ELSE IF Len(fl.pockets[idx]) > 0
            THEN [status |-> "some", ptr |-> fl.pockets[idx][Len(fl.pockets[idx])],
                  pocket_size |-> size,
                  fl |-> [fl EXCEPT !.pockets[idx] = SubSeq(@, 1, Len(@) - 1)]]
            ELSE [status |-> "none", ptr |-> 0, pocket_size |-> 0, fl |-> fl]

\* FreeList::alloc: status is "some", "none" (Option::None) or "panic"
FreeListAlloc(fl, size) ==
    LET pocket == next_up(size) IN
    IF pocket = "Panic" THEN [status |-> "panic", ptr |-> 0, pocket_size |-> 0, fl |-> fl]
    ELSE IF pocket = "None" THEN [status |-> "none", ptr |-> 0, pocket_size |-> 0, fl |-> fl]
    ELSE LET idx == PocketIndex(pocket) + 1
             psz == PocketBytes(pocket)
         IN IF fl.current + psz < fl.start + fl.size
            THEN [status |-> "some", ptr |-> fl.current, pocket_size |-> psz,
                  fl |-> [fl EXCEPT !.current = fl.current + psz,
                                    !.carved = @ \cup {[ptr |-> fl.current, size |-> psz]}]]
            ELSE IF Len(fl.pockets[idx]) > 0
            THEN [status |-> "some", ptr |-> fl.pockets[idx][Len(fl.pockets[idx])],
                  pocket_size |-> psz,
                  fl |-> [fl EXCEPT !.pockets[idx] = SubSeq(@, 1, Len(@) - 1)]]
            ELSE [status |-> "none", ptr |-> 0, pocket_size |-> 0, fl |-> fl]

\* PocketSize::reclaim pushing onto the neighbouring class's stack
reclaim_wrong_class(size, ptr, list) ==
    LET idx == ((PocketIndex(from_pocket_size(size)) + 1) % NUMBER_MEMORY_POCKETS) + 1
    IN [list EXCEPT !.pockets[idx] = Append(@, ptr)]

\* PocketSize::reclaim
reclaim(size, ptr, list) ==
    LET idx == PocketIndex(from_pocket_size(size)) + 1
    IN [list EXCEPT !.pockets[idx] = Append(@, ptr)]

(* --------------------------- state variables -------------------------- *)
VARIABLES
    kind,       \* which heap the client constructed: "BumpHeap" or "SweepHeap"
    arena,      \* [base, size]: the block alloc_zeroed(layout) returned
    bump,       \* the BumpHeap struct
    mem,        \* the bytes of the address space, as extents
    fatal,      \* "none", or the panic that ended the process
    handles,    \* ids of the Rooted<T> handles the client still holds
    expect,     \* per alloc call, the value and size it was given
    last,       \* what the last operation did
    cycles,     \* number of collections the client has called
    sizes,      \* the payload sizes the client program allocates
    sweep,      \* the stand-alone SweepHeap struct
    nu_arg,     \* argument of PocketSize::next_up
    nu_res      \* its result, "pending" before the call

vars == <<kind, arena, bump, mem, fatal, handles, expect, last, cycles, sizes, sweep, nu_arg, nu_res>>

(* ------------------------------ BumpHeap ------------------------------ *)
\* memory::padding_for, for an alignment that is a power of two
padding_for(size, align) == (((size + align - 1) \div align) * align) - size

\* the address alloc_zeroed returns: page aligned and not null
ArenaBase == page_size

\* SweepHeap::from_region: the old heap over a region it does not own
SweepHeapFromRegion(start, size) == FreeListNew(start, size)

\* BumpHeap::new where memory::page_size() returns page and alloc_zeroed base
BumpHeapNewAt(young_heap_size, old_heap_size, page, base) ==
    LET layout_size == young_heap_size + old_heap_size
        total_heap_size == layout_size + padding_for(layout_size, page)
        young_start == base
        young_end == (young_start + total_heap_size) - old_heap_size
    IN [young_start |-> young_start,
        young_current |-> young_start,
        young_end |-> young_end,
        heap_size |-> total_heap_size,
        intermediate |-> SweepHeapFromRegion(young_end + 1, old_heap_size),
        roots |-> <<>>]

BumpHeapNew(young_heap_size, old_heap_size) ==
    BumpHeapNewAt(young_heap_size, old_heap_size, page_size, ArenaBase)

Eden == [tag |-> "Eden", pocket |-> 0]
Intermediate(pocket_size) == [tag |-> "Intermediate", pocket |-> pocket_size]

\* a descriptor that is born unrooted
RootedInnerNewUnrooted(id, ptr, heap, size) ==
    [id |-> id, value |-> ptr, rooted |-> FALSE, color |-> "White", heap |-> heap, size |-> size]

\* RootedInner::new; id stands for the address of the pinned box
RootedInnerNew(id, ptr, heap, size) ==
    [id |-> id, value |-> ptr, rooted |-> TRUE, color |-> "White", heap |-> heap, size |-> size]

\* SweepHeap::alloc(size) as BumpHeap calls it: delegates to the free list
SweepHeapAllocSize(fl, size) == FreeListAlloc(fl, size)

\* the descriptors SweepHeap::sweep(roots) frees: in the old region, unrooted
Unreachable(d) == d.heap.tag = "Intermediate" /\ ~d.rooted

\* the free list after each freed descriptor, in registry order, was reclaimed
RECURSIVE ReclaimAll(_, _)
ReclaimAll(fl, freed) ==
    IF freed = <<>> THEN fl
    ELSE ReclaimAll(reclaim(Head(freed).heap.pocket, Head(freed).value, fl), Tail(freed))

\* SweepHeap::sweep(roots): unrooted old-region descriptors are reclaimed
\* into their class and removed, all others are retained
SweepRoots(fl, roots) ==
    [fl |-> ReclaimAll(fl, SelectSeq(roots, Unreachable)),
     roots |-> SelectSeq(roots, LAMBDA d : ~Unreachable(d))]

\* SweepHeap::fragmentation() > 50.0: 1.0 - (free_list.start / size) > 50.0
FragmentationOver50(fl) == fl.size > 0 /\ fl.size - fl.start > 50 * fl.size

\* SweepHeap::compact
Compact(swept) == swept

\* SweepHeap::collect(roots)
CollectRoots(fl, roots) ==
    LET swept == SweepRoots(fl, roots)
    IN IF FragmentationOver50(swept.fl) THEN Compact(swept) ELSE swept

\* a major that reclaims the dead descriptors but leaves them in the registry
MajorOpKeepsRegistry(m) ==
    LET c == CollectRoots(m.heap.intermediate, m.heap.roots)
    IN [m EXCEPT !.heap.intermediate = c.fl, !.log = Append(@, "major")]

\* BumpHeap::major on the machine m = [heap, mem, fatal, log]
MajorOp(m) ==
    LET c == CollectRoots(m.heap.intermediate, m.heap.roots)
    IN [m EXCEPT !.heap.intermediate = c.fl, !.heap.roots = c.roots,
                 !.log = Append(@, "major")]

\* a promotion that copies and repoints but leaves the descriptor's heap tag
PromoteKeepsTag(m, root, a) ==
    [m EXCEPT !.heap.intermediate = a.fl,
              !.mem = Copy(@, root.value, a.ptr, root.size),
              !.heap.roots = Append(@, [root EXCEPT !.value = a.ptr])]

\* the promotion of one survivor in BumpHeap::scavenge: tag, copy, repoint, push
Promote(m, root, a) ==
    [m EXCEPT !.heap.intermediate = a.fl,
              !.mem = Copy(@, root.value, a.ptr, root.size),
              !.heap.roots = Append(@, [root EXCEPT !.heap = Intermediate(a.pocket_size),
                                                    !.value = a.ptr])]

\* an iteration that promotes a descriptor whether or not it is rooted
ScavengeStepPromotesAll(m, root) ==
    IF m.fatal # "none" THEN m
    ELSE LET a1 == SweepHeapAllocSize(m.heap.intermediate, root.size) IN
         IF a1.status = "panic" THEN [m EXCEPT !.fatal = "AssertFailed"]
         ELSE IF a1.status = "some" THEN Promote(m, root, a1)
         ELSE [MajorOp([m EXCEPT !.log = Append(@, "alloc_failed")])
                  EXCEPT !.log = Append(@, "retry_failed"), !.fatal = "OldOutOfSpace"]

\* an iteration that panics on the first failed old-region allocation
ScavengeStepNoRetry(m, root) ==
    IF m.fatal # "none" THEN m
    ELSE IF ~root.rooted THEN m
    ELSE LET a1 == SweepHeapAllocSize(m.heap.intermediate, root.size) IN
         IF a1.status = "panic" THEN [m EXCEPT !.fatal = "AssertFailed"]
         ELSE IF a1.status = "some" THEN Promote(m, root, a1)
         ELSE [m EXCEPT !.log = Append(@, "alloc_failed"), !.fatal = "OldOutOfSpace"]

\* one iteration of the loop of BumpHeap::scavenge, for one swapped-out
\* root; nothing runs after a panic
ScavengeStep(m, root) ==
    IF m.fatal # "none" THEN m
    ELSE IF ~root.rooted THEN m
    ELSE LET a1 == SweepHeapAllocSize(m.heap.intermediate, root.size) IN
         IF a1.status = "panic" THEN [m EXCEPT !.fatal = "AssertFailed"]
         ELSE IF a1.status = "some" THEN Promote(m, root, a1)
         ELSE LET m1 == MajorOp([m EXCEPT !.log = Append(@, "alloc_failed")])
                  a2 == SweepHeapAllocSize(m1.heap.intermediate, root.size)
              IN IF a2.status = "some"
                 THEN Promote([m1 EXCEPT !.log = Append(@, "retry_ok")], root, a2)
                 ELSE [m1 EXCEPT !.log = Append(@, "retry_failed"),
                                 !.fatal = "OldOutOfSpace"]

\* the loop of BumpHeap::scavenge over todo[lo..hi], in order
RECURSIVE ScavengeLoop(_, _, _, _)
ScavengeLoop(m, todo, lo, hi) ==
    IF lo > hi \/ m.fatal # "none" THEN m
    ELSE IF lo = hi THEN ScavengeStep(m, todo[lo])
    ELSE LET mid == (lo + hi) \div 2
             left == ScavengeLoop(m, todo, lo, mid)
         IN IF left.fatal # "none" THEN left ELSE ScavengeLoop(left, todo, mid + 1, hi)

\* a scavenge that leaves the bump frontier where it was
ScavengeNoReset(m) ==
    LET done == ScavengeLoop([m EXCEPT !.heap.roots = <<>>, !.log = Append(@, "scavenge")],
                             m.heap.roots, 1, Len(m.heap.roots))
    IN IF done.fatal # "none" THEN done
       ELSE [done EXCEPT !.mem = Clear(@, m.heap.young_start, m.heap.young_end)]

\* BumpHeap::scavenge
ScavengeOp(m) ==
    LET done == ScavengeLoop([m EXCEPT !.heap.roots = <<>>, !.log = Append(@, "scavenge")],
                             m.heap.roots, 1, Len(m.heap.roots))
    IN IF done.fatal # "none" THEN done
       ELSE [done EXCEPT !.mem = Clear(@, m.heap.young_start, m.heap.young_end),
                         !.heap.young_current = m.heap.young_start]

Machine == [heap |-> bump, mem |-> mem, fatal |-> fatal, log |-> <<>>]

NoSnap == [ran |-> FALSE, young_current |-> 0, roots |-> <<>>, eden |-> {}]
\* the heap as it is when a scavenge returns
Snap(m) == [ran |-> TRUE, young_current |-> m.heap.young_current, roots |-> m.heap.roots,
            eden |-> {e \in m.mem : e.lo < m.heap.young_end /\ e.hi > m.heap.young_start}]

\* op: the operation; id, size: its arguments; res: "ok", the error it returned
\* or the panic it died of; snap: the heap when the scavenge inside it returned;
\* log: the steps of that scavenge; read: the bytes it read
LastOf(op, id, size, res, snap, log, read) ==
    [op |-> op, id |-> id, size |-> size, res |-> res, snap |-> snap, log |-> log,
     read |-> read]

(* ------------------------- BumpHeap operations ------------------------ *)
NoBump == BumpHeapNew(0, 0)
NoSweep == [start |-> 0, size |-> 0, free_list |-> FreeListNew(0, 0), roots |-> <<>>,
            white |-> <<>>, grey |-> <<>>, black |-> <<>>, next_id |-> 0]

Running(k) == kind = k /\ fatal = "none"

Install(m) == /\ bump' = m.heap
              /\ mem' = m.mem
              /\ fatal' = m.fatal

\* the young-generation test without the size of the object
EdenFullIgnoresSize(heap, size) == heap.young_current > heap.young_end

\* the young-generation test with the bound included
EdenFullInclusive(heap, size) == heap.young_current + size >= heap.young_end

\* self.young_current + allocation_size > self.young_end
EdenFull(heap, size) == heap.young_current + size > heap.young_end

\* BumpHeap::alloc(value) for a value of the given size, in a program that
\* makes at most limit alloc calls
AllocUpTo(size, limit) ==
    /\ Running("BumpHeap")
    /\ Len(expect) < limit
    /\ LET id == Len(expect) + 1
           val == id
           full == EdenFull(bump, size)
           m1 == IF full THEN ScavengeOp(Machine) ELSE Machine
           snap == IF full /\ m1.fatal = "none" THEN Snap(m1) ELSE NoSnap
           ptr == m1.heap.young_current
           inner == RootedInnerNew(id, ptr, Eden, size)
       IN /\ expect' = Append(expect, [val |-> val, size |-> size])
          /\ last' = LastOf("alloc", id, size,
                            IF m1.fatal # "none" THEN m1.fatal
                            ELSE IF full /\ EdenFull(m1.heap, size)
                            THEN "TooLarge" ELSE "ok",
                            snap, m1.log, {})
          /\ IF m1.fatal # "none"
             THEN Install(m1) /\ UNCHANGED handles
             ELSE IF full /\ EdenFull(m1.heap, size)
             THEN Install([m1 EXCEPT !.fatal = "TooLarge"]) /\ UNCHANGED handles
             ELSE /\ Install([m1 EXCEPT !.heap.young_current = ptr + size,
                                        !.mem = Store(@, ptr, size, val),
                                        !.heap.roots = Append(@, inner)])
                  /\ handles' = handles \cup {id}
    /\ UNCHANGED <<kind, arena, cycles, sizes, sweep, nu_arg, nu_res>>

Alloc(size) == AllocUpTo(size, MaxAllocs)

\* BumpHeap::scavenge called by the client
Scavenge ==
    /\ Running("BumpHeap")
    /\ cycles < MaxCycles
    /\ cycles' = cycles + 1
    /\ LET m1 == ScavengeOp(Machine)
       IN /\ Install(m1)
          /\ last' = LastOf("scavenge", 0, 0, IF m1.fatal = "none" THEN "ok" ELSE m1.fatal,
                            IF m1.fatal = "none" THEN Snap(m1) ELSE NoSnap, m1.log, {})
    /\ UNCHANGED <<kind, arena, handles, expect, sizes, sweep, nu_arg, nu_res>>

\* BumpHeap::major called by the client
Major ==
    /\ Running("BumpHeap")
    /\ cycles < MaxCycles
    /\ cycles' = cycles + 1
    /\ LET m1 == MajorOp(Machine)
       IN /\ Install(m1)
          /\ last' = LastOf("major", 0, 0, "ok", NoSnap, m1.log, {})
    /\ UNCHANGED <<kind, arena, handles, expect, sizes, sweep, nu_arg, nu_res>>

\* the index in the registry of the descriptor a handle points to
RootIndex(rs, id) == CHOOSE i \in 1..Len(rs) : rs[i].id = id
HasRoot(rs, id) == \E i \in 1..Len(rs) : rs[i].id = id

\* a drop that takes the descriptor out of the registry at once
ReleaseRemoves(id) ==
    /\ Running("BumpHeap")
    /\ id \in handles
    /\ HasRoot(bump.roots, id)
    /\ bump' = [bump EXCEPT !.roots = SelectSeq(@, LAMBDA d : d.id # id)]
    /\ handles' = handles \ {id}
    /\ last' = LastOf("release", id, 0, "ok", NoSnap, <<>>, {})
    /\ UNCHANGED <<kind, arena, mem, fatal, expect, cycles, sizes, sweep, nu_arg, nu_res>>

\* Drop for Rooted<T>
Release(id) ==
    /\ Running("BumpHeap")
    /\ id \in handles
    /\ HasRoot(bump.roots, id)
    /\ bump' = [bump EXCEPT !.roots[RootIndex(bump.roots, id)].rooted = FALSE]
    /\ handles' = handles \ {id}
    /\ last' = LastOf("release", id, 0, "ok", NoSnap, <<>>, {})
    /\ UNCHANGED <<kind, arena, mem, fatal, expect, cycles, sizes, sweep, nu_arg, nu_res>>

\* the bytes Deref for Rooted<T> reads through the descriptor
DerefBytes(rs, m, id) ==
    LET d == rs[RootIndex(rs, id)] IN Bytes(m, d.value, d.size)

\* Deref for Rooted<T>
Deref(id) ==
    /\ Running("BumpHeap")
    /\ id \in handles
    /\ HasRoot(bump.roots, id)
    /\ last' = LastOf("deref", id, expect[id].size, "ok", NoSnap, <<>>,
                      DerefBytes(bump.roots, mem, id))
    /\ UNCHANGED <<kind, arena, bump, mem, fatal, handles, expect, cycles, sizes, sweep, nu_arg, nu_res>>

\* the payload bytes of the descriptor at index i of the registry
PayloadOverlaps(i, e) ==
    bump.roots[i].value < e.hi /\ bump.roots[i].value + bump.roots[i].size > e.lo

\* bytes past the block the allocator returned belong to other owners; only
\* the ones a handle still reaches are observable
Foreign == {e \in mem : /\ e.hi > arena.base + arena.size
                        /\ \E i \in 1..Len(bump.roots) :
                              bump.roots[i].rooted /\ PayloadOverlaps(i, e)}

\* another owner of the memory past the arena stores into it, once per run
ForeignStore(e) ==
    /\ Running("BumpHeap")
    /\ e \in Foreign
    /\ \A x \in mem : x.val # PoisonByte
    /\ mem' = Store(mem, Max(e.lo, arena.base + arena.size),
                    e.hi - Max(e.lo, arena.base + arena.size), PoisonByte)
    /\ last' = LastOf("foreign", 0, 0, "ok", NoSnap, <<>>, {})
    /\ UNCHANGED <<kind, arena, bump, fatal, handles, expect, cycles, sizes, sweep, nu_arg, nu_res>>

(* ------------------------------ SweepHeap ----------------------------- *)
\* HashMap::insert
MapPut(map, k, v) == [x \in (DOMAIN map) \cup {k} |-> IF x = k THEN v ELSE map[x]]

\* Weight::new
WeightNew(ptr, size, pocket) ==
    [ptr |-> ptr, size |-> size, children |-> <<>>, shade |-> "White", pocket |-> pocket]

\* SweepHeap::new
SweepHeapNew(size) ==
    [start |-> ArenaBase, size |-> size, free_list |-> FreeListNew(ArenaBase, size),
     roots |-> <<>>, white |-> <<>>, grey |-> <<>>, black |-> <<>>, next_id |-> 0]

\* SweepHeap::contains
Contains(h, id) == id \in DOMAIN h.black \/ id \in DOMAIN h.grey \/ id \in DOMAIN h.white

\* SweepHeap::get_weight; only called where Contains holds
GetWeight(h, id) ==
    IF id \in DOMAIN h.black THEN h.black[id]
    ELSE IF id \in DOMAIN h.grey THEN h.grey[id]
    ELSE h.white[id]

\* SweepHeap::get_weight_mut followed by an assignment to the shade
SetShade(h, id, shade) ==
    IF id \in DOMAIN h.black THEN [h EXCEPT !.black[id].shade = shade]
    ELSE IF id \in DOMAIN h.grey THEN [h EXCEPT !.grey[id].shade = shade]
    ELSE [h EXCEPT !.white[id].shade = shade]

\* FreeList::reclaim(weight), the call SweepHeap::sweep makes
FreeListReclaim(fl, weight) == reclaim(PocketBytes(weight.pocket), weight.ptr, fl)

\* the marking loop of SweepHeap::sweep; no weight has children
RECURSIVE MarkAll(_, _)
MarkAll(h, to_mark) ==
    IF to_mark = <<>> THEN h
    ELSE MarkAll(SetShade(h, to_mark[Len(to_mark)], "Black"), SubSeq(to_mark, 1, Len(to_mark) - 1))

\* self.white.drain() reclaiming every weight, in the map's iteration order
RECURSIVE DrainWhite(_, _, _)
DrainWhite(fl, white, order) ==
    IF order = <<>> THEN fl
    ELSE DrainWhite(FreeListReclaim(fl, white[Head(order)]), white, Tail(order))

\* a sweep that reclaims the white weights but leaves them in the map
SweepOpKeepsWhite(h, grey_order, white_order) ==
    LET marked == MarkAll(h, grey_order)
    IN [marked EXCEPT !.free_list = DrainWhite(@, marked.white, white_order)]

\* SweepHeap::sweep
SweepOp(h, grey_order, white_order) ==
    LET marked == MarkAll(h, grey_order)
    IN [marked EXCEPT !.free_list = DrainWhite(@, marked.white, white_order),
                      !.white = <<>>]

\* SweepHeap::fragmentation() > 50.0
SweepFragmentationOver50(h) == h.size > 0 /\ h.size - h.free_list.start > 50 * h.size

\* SweepHeap::collect
CollectOp(h, grey_order, white_order) ==
    LET swept == SweepOp(h, grey_order, white_order)
    IN IF SweepFragmentationOver50(swept) THEN Compact(swept) ELSE swept

\* the passes SweepHeap::collect runs, given the heap its sweep left
CollectSteps(swept) ==
    IF SweepFragmentationOver50(swept) THEN <<"sweep", "compact">> ELSE <<"sweep">>

\* the orders a HashMap may iterate the keys S in
Orders(S) == {f \in [1..Cardinality(S) -> S] : \A i, j \in 1..Cardinality(S) : f[i] = f[j] => i = j}

\* SweepHeap::alloc(data) for data of the given size
SAlloc(size) ==
    /\ Running("SweepHeap")
    /\ Len(expect) < MaxAllocs
    /\ LET a == FreeListAlloc(sweep.free_list, size)
           id == sweep.next_id
           val == Len(expect) + 1
       IN /\ IF a.status = "panic"
             THEN /\ fatal' = "AssertFailed"
                  /\ last' = LastOf("salloc", id, size, "AssertFailed", NoSnap, <<>>, {})
                  /\ UNCHANGED <<sweep, mem, handles, expect>>
             ELSE IF a.status = "none"
             THEN /\ last' = LastOf("salloc", id, size, "None", NoSnap, <<>>, {})
                  /\ UNCHANGED <<sweep, mem, fatal, handles, expect>>
             ELSE /\ expect' = Append(expect, [val |-> val, size |-> size])
                  /\ sweep' = [sweep EXCEPT
                                 !.free_list = a.fl,
                                 !.next_id = id + 1,
                                 !.white = MapPut(@, id, WeightNew(a.ptr, size,
                                                      from_pocket_size(a.pocket_size)))]
                  /\ mem' = Store(mem, a.ptr, size, val)
                  /\ handles' = handles \cup {id}
                  /\ last' = LastOf("salloc", id, size, "ok", NoSnap, <<>>, {})
                  /\ UNCHANGED fatal
    /\ UNCHANGED <<kind, arena, bump, cycles, sizes, nu_arg, nu_res>>

\* a write that stores the data one pocket past the allocation
SWriteNextSlot(id, size) ==
    /\ Running("SweepHeap")
    /\ LET val == PoisonByte IN
       IF ~Contains(sweep, id)
       THEN /\ last' = LastOf("swrite", id, size, "NoAllocationFound", NoSnap, <<>>, {})
            /\ UNCHANGED mem
       ELSE /\ mem' = Store(mem, GetWeight(sweep, id).ptr
                                  + PocketBytes(GetWeight(sweep, id).pocket), size, val)
            /\ last' = LastOf("swrite", id, size, "ok", NoSnap, <<>>, {val})
    /\ UNCHANGED <<kind, arena, bump, sweep, fatal, handles, expect, cycles, sizes, nu_arg, nu_res>>

\* SweepHeap::write(id, data) for data of the given size
SWrite(id, size) ==
    /\ Running("SweepHeap")
    /\ LET val == PoisonByte IN
       IF ~Contains(sweep, id)
       THEN /\ last' = LastOf("swrite", id, size, "NoAllocationFound", NoSnap, <<>>, {})
            /\ UNCHANGED mem
       ELSE /\ mem' = Store(mem, GetWeight(sweep, id).ptr, size, val)
            /\ last' = LastOf("swrite", id, size, "ok", NoSnap, <<>>, {val})
    /\ UNCHANGED <<kind, arena, bump, sweep, fatal, handles, expect, cycles, sizes, nu_arg, nu_res>>

\* a get that only rejects a T smaller than the recorded size
SGetAtLeast(id, size) ==
    /\ Running("SweepHeap")
    /\ last' = IF ~Contains(sweep, id)
               THEN LastOf("sget", id, size, "NoAllocationFound", NoSnap, <<>>, {})
               ELSE IF GetWeight(sweep, id).size > size
               THEN LastOf("sget", id, size, "SizeMisalign", NoSnap, <<>>, {})
               ELSE LastOf("sget", id, size, "ok", NoSnap, <<>>,
                           Bytes(mem, GetWeight(sweep, id).ptr, size))
    /\ UNCHANGED <<kind, arena, bump, sweep, mem, fatal, handles, expect, cycles, sizes,
                   nu_arg, nu_res>>

\* SweepHeap::get::<T>(id) for T of the given size
SGet(id, size) ==
    /\ Running("SweepHeap")
    /\ last' = IF ~Contains(sweep, id)
               THEN LastOf("sget", id, size, "NoAllocationFound", NoSnap, <<>>, {})
               ELSE IF GetWeight(sweep, id).size # size
               THEN LastOf("sget", id, size, "SizeMisalign", NoSnap, <<>>, {})
               ELSE LastOf("sget", id, size, "ok", NoSnap, <<>>,
                           Bytes(mem, GetWeight(sweep, id).ptr, size))
    /\ UNCHANGED <<kind, arena, bump, sweep, mem, fatal, handles, expect, cycles, sizes,
                   nu_arg, nu_res>>

\* a root that pushes the id before it looks the allocation up
SRootPushFirst(id) ==
    /\ Running("SweepHeap")
    /\ Len(sweep.roots) < MaxRoots
    /\ IF ~Contains(sweep, id)
       THEN /\ last' = LastOf("sroot", id, 0, "NoAllocationFound", NoSnap, <<>>, {})
            /\ sweep' = [sweep EXCEPT !.roots = Append(@, id)]
       ELSE /\ sweep' = [SetShade(sweep, id, "Grey") EXCEPT !.roots = Append(@, id)]
            /\ last' = LastOf("sroot", id, 0, "ok", NoSnap, <<>>, {})
    /\ UNCHANGED <<kind, arena, bump, mem, fatal, handles, expect, cycles, sizes, nu_arg, nu_res>>

\* SweepHeap::root(id)
SRoot(id) ==
    /\ Running("SweepHeap")
    /\ Len(sweep.roots) < MaxRoots
    /\ IF ~Contains(sweep, id)
       THEN /\ last' = LastOf("sroot", id, 0, "NoAllocationFound", NoSnap, <<>>, {})
            /\ UNCHANGED sweep
       ELSE /\ sweep' = [SetShade(sweep, id, "Grey") EXCEPT !.roots = Append(@, id)]
            /\ last' = LastOf("sroot", id, 0, "ok", NoSnap, <<>>, {})
    /\ UNCHANGED <<kind, arena, bump, mem, fatal, handles, expect, cycles, sizes, nu_arg, nu_res>>

\* SweepHeap::collect()
SCollect ==
    /\ Running("SweepHeap")
    /\ cycles < MaxCycles
    /\ cycles' = cycles + 1
    /\ \E grey_order \in Orders(DOMAIN sweep.grey), white_order \in Orders(DOMAIN sweep.white) :
          /\ sweep' = CollectOp(sweep, grey_order, white_order)
          /\ last' = LastOf("scollect", 0, 0, "ok", NoSnap,
                            CollectSteps(SweepOp(sweep, grey_order, white_order)), {})
    /\ UNCHANGED <<kind, arena, bump, mem, fatal, handles, expect, sizes, nu_arg, nu_res>>

(* --------------------------- specification ---------------------------- *)
Init ==
    /\ \E sc \in Scenarios :
          /\ kind = sc.heap
          /\ arena = [base |-> ArenaBase, size |-> sc.young + sc.old]
          /\ bump = IF sc.heap = "BumpHeap" THEN BumpHeapNew(sc.young, sc.old) ELSE NoBump
          /\ sweep = IF sc.heap = "SweepHeap" THEN SweepHeapNew(sc.old) ELSE NoSweep
          /\ sizes = sc.sizes
    /\ mem = {}
    /\ fatal = "none"
    /\ handles = {}
    /\ expect = <<>>
    /\ last = LastOf("new", 0, 0, "ok", NoSnap, <<>>, {})
    /\ cycles = 0
    /\ nu_arg = 0
    /\ nu_res = "pending"

Next ==
    \/ \E size \in sizes : Alloc(size)
    \/ Scavenge
    \/ Major
    \/ \E id \in handles : Release(id)
    \/ \E id \in handles : Deref(id)
    \/ \E e \in Foreign : ForeignStore(e)
    \/ \E size \in sizes : SAlloc(size)
    \/ \E id \in 0..sweep.next_id, size \in AccessSizes(sizes) : SWrite(id, size)
    \/ \E id \in 0..sweep.next_id, size \in AccessSizes(sizes) : SGet(id, size)
    \/ \E id \in 0..sweep.next_id : SRoot(id)
    \/ SCollect

Spec == Init /\ [][Next]_vars

(* ------------------- PocketSize::next_up on its own ------------------- *)
InitPocket ==
    /\ kind = "PocketSize"
    /\ arena = [base |-> ArenaBase, size |-> 0]
    /\ bump = NoBump
    /\ sweep = NoSweep
    /\ sizes = {}
    /\ mem = {}
    /\ fatal = "none"
    /\ handles = {}
    /\ expect = <<>>
    /\ last = LastOf("new", 0, 0, "ok", NoSnap, <<>>, {})
    /\ cycles = 0
    /\ nu_arg \in 0..MaxPocketArg
    /\ nu_res = "pending"

\* the call PocketSize::next_up(nu_arg)
CallNextUp ==
    /\ kind = "PocketSize"
    /\ nu_res = "pending"
    /\ nu_res' = next_up(nu_arg)
    /\ UNCHANGED <<kind, arena, bump, mem, fatal, handles, expect, last, cycles, sizes, sweep,
                   nu_arg>>

NextPocket == CallNextUp

SpecPocket == InitPocket /\ [][NextPocket]_vars

(* ------- tests::allocate_into_major: default options, all retained ---- *)
InitDefault ==
    /\ kind = "BumpHeap"
    /\ arena = [base |-> DefaultPage, size |-> DefaultYoung + DefaultOld]
    /\ bump = BumpHeapNewAt(DefaultYoung, DefaultOld, DefaultPage, DefaultPage)
    /\ sweep = NoSweep
    /\ sizes = {WordSize}
    /\ mem = {}
    /\ fatal = "none"
    /\ handles = {}
    /\ expect = <<>>
    /\ last = LastOf("new", 0, 0, "ok", NoSnap, <<>>, {})
    /\ cycles = 0
    /\ nu_arg = 0
    /\ nu_res = "pending"

NextDefault == \E size \in sizes : AllocUpTo(size, TestAllocs)

SpecDefault == InitDefault /\ [][NextDefault]_vars

(* ---- tests::allocate_a_bunch: each handle dropped before the next alloc ---- *)
\* a BumpHeap of one of the scenarios and one payload size that fits its Eden
InitRelease ==
    /\ \E sc \in {x \in Scenarios : x.heap = "BumpHeap"} :
          /\ kind = sc.heap
          /\ arena = [base |-> ArenaBase, size |-> sc.young + sc.old]
          /\ bump = BumpHeapNew(sc.young, sc.old)
          /\ \E size \in sc.sizes :
                /\ size <= BumpHeapNew(sc.young, sc.old).young_end
                              - BumpHeapNew(sc.young, sc.old).young_start
                /\ sizes = {size}
    /\ sweep = NoSweep
    /\ mem = {}
    /\ fatal = "none"
    /\ handles = {}
    /\ expect = <<>>
    /\ last = LastOf("new", 0, 0, "ok", NoSnap, <<>>, {})
    /\ cycles = 0
    /\ nu_arg = 0
    /\ nu_res = "pending"

\* alloc in a program that holds no handle when it allocates
AllocAfterRelease == handles = {} /\ \E size \in sizes : AllocUpTo(size, MaxChurn)

\* scavenge called while no handle is held
ScavengeAfterRelease == handles = {} /\ Scavenge

NextRelease ==
    \/ AllocAfterRelease
    \/ \E id \in handles : Release(id)
    \/ ScavengeAfterRelease

SpecRelease == InitRelease /\ [][NextRelease]_vars

(* ------------------------------ properties ---------------------------- *)
\* the six class sizes, as the specification lists them
ClassSizes == {1, 32, 128, 2048, 8192, 32768}
\* the smallest class that holds s bytes
SmallestClass(s) == CHOOSE c \in ClassSizes : c >= s /\ \A d \in ClassSizes : d >= s => c <= d
\* the bytes a payload of the id-th alloc call reads back as
PayloadOf(id) == IF expect[id].size = 0 THEN {} ELSE {expect[id].val}
\* the position of the descriptor with the given id in a registry, 0 if absent
Position(rs, id) == IF \E i \in 1..Len(rs) : rs[i].id = id
                    THEN CHOOSE i \in 1..Len(rs) : rs[i].id = id ELSE 0

C2_RetainedAllocsComplete ==
    (kind = "BumpHeap" /\ Len(expect) <= 4000) =>
        /\ fatal = "none"
        /\ handles = 1..Len(expect)
        /\ \A id \in handles :
              /\ Position(bump.roots, id) # 0
              /\ Bytes(mem, bump.roots[Position(bump.roots, id)].value, 8) = {expect[id].val}

\* C3: after every scavenge that returns, called manually or triggered by
\* alloc, young.current equals young.start and every byte of
\* [young.start, young.end) is zero.
C3_EdenResetAfterScavenge ==
    /\ last.snap.ran =>
          /\ last.snap.young_current = bump.young_start
          /\ last.snap.eden = {}
    /\ (last.op = "scavenge" /\ last.res = "ok") =>
          /\ bump.young_current = bump.young_start
          /\ \A e \in mem : e.hi <= bump.young_start \/ e.lo >= bump.young_end

\* an alloc whose scavenge promoted a survivor and returned
C3_Witness ==
    /\ last.op = "alloc" /\ last.res = "ok" /\ last.snap.ran
    /\ Len(last.snap.roots) > 0
    /\ bump.young_current = bump.young_start + last.size

\* C4: after every scavenge that returns no descriptor of the registry has
\* heap == Eden: each descriptor rooted when the scavenge started is in the
\* registry with heap == Intermediate(c), each unrooted one has been removed.
C4_ScavengePromotesOrRemoves ==
    [][last'.snap.ran =>
          /\ \A j \in 1..Len(last'.snap.roots) :
                last'.snap.roots[j].heap.tag = "Intermediate"
          /\ \A i \in 1..Len(bump.roots) :
                IF bump.roots[i].rooted
                THEN /\ Position(last'.snap.roots, bump.roots[i].id) # 0
                     /\ last'.snap.roots[Position(last'.snap.roots, bump.roots[i].id)].heap.tag
                           = "Intermediate"
                ELSE Position(last'.snap.roots, bump.roots[i].id) = 0]_vars

\* a manual scavenge that kept one descriptor and removed a released one
C4_Witness ==
    /\ last.op = "scavenge" /\ last.snap.ran
    /\ Len(expect) = 2 /\ Cardinality(handles) = 1
    /\ Len(last.snap.roots) = 1
    /\ last.snap.roots[1].heap.tag = "Intermediate"

\* C5: in every reachable state each registry descriptor d has heap == Eden
\* or heap == Intermediate(c) with c one of the six class sizes, c >= d.size
\* and c the smallest such class (an 8-byte object is Intermediate(32)).
C5_HeapTagIsSmallestClass ==
    kind = "BumpHeap" =>
        \A i \in 1..Len(bump.roots) :
            \/ bump.roots[i].heap = [tag |-> "Eden", pocket |-> 0]
            \/ /\ bump.roots[i].heap.tag = "Intermediate"
               /\ bump.roots[i].heap.pocket \in ClassSizes
               /\ bump.roots[i].heap.pocket >= bump.roots[i].size
               /\ bump.roots[i].heap.pocket = SmallestClass(bump.roots[i].size)

\* an 8-byte object that was promoted and is recorded as Intermediate(32)
C5_Witness ==
    \E i \in 1..Len(bump.roots) :
        /\ bump.roots[i].size = 8
        /\ bump.roots[i].heap = [tag |-> "Intermediate", pocket |-> 32]

\* the class sizes by name and in index order
ClassOf == [Mini |-> 1, Tiny |-> 32, Small |-> 128, Medium |-> 2048, Large |-> 8192,
            Huge |-> 32768]
ClassSeq == <<1, 32, 128, 2048, 8192, 32768>>

\* C6: for every size s with 0 <= s <= 32768, PocketSize::next_up(s) returns
\* the smallest class of {1, 32, 128, 2048, 8192, 32768} whose size is >= s,
\* without aborting; for every s > 32768 it returns None.
C6_NextUpFromZero ==
    nu_res # "pending" =>
        IF nu_arg <= 32768
        THEN nu_res \in DOMAIN ClassOf /\ ClassOf[nu_res] = SmallestClass(nu_arg)
        ELSE nu_res = "None"

\* C6 as amended: next_up(s) returns the smallest class >= s for every s
\* with 1 <= s <= 32768 and None for every s > 32768; next_up(0) aborts on
\* the assertion size >= 1.
C6_NextUpFromOne ==
    nu_res # "pending" =>
        IF nu_arg = 0 THEN nu_res = "Panic"
        ELSE IF nu_arg <= 32768
        THEN nu_res \in DOMAIN ClassOf /\ ClassOf[nu_res] = SmallestClass(nu_arg)
        ELSE nu_res = "None"

\* next_up called with the size of the largest class
C6_Witness == nu_arg = 32768 /\ nu_res = "Huge"

\* C7: alloc of an object of size s runs a scavenge exactly when
\* young.current + s > young.end; if the object still does not fit in Eden
\* after that scavenge the call fails with TooLarge, returns no handle and
\* adds no descriptor to the registry.
C7_AllocScavengesWhenFull ==
    [][last'.op = "alloc" =>
          /\ (\E i \in 1..Len(last'.log) : last'.log[i] = "scavenge")
                <=> (bump.young_current + last'.size > bump.young_end)
          /\ (last'.snap.ran /\ last'.snap.young_current + last'.size > bump.young_end)
                => last'.res = "TooLarge"
          /\ last'.res = "TooLarge" =>
                /\ last'.snap.ran
                /\ last'.snap.young_current + last'.size > bump.young_end
                /\ handles' = handles
                /\ bump'.roots = last'.snap.roots
                /\ Position(bump'.roots, last'.id) = 0]_vars

\* an alloc that scavenged and still failed with TooLarge
C7_Witness ==
    /\ last.op = "alloc" /\ last.res = "TooLarge"
    /\ last.log # <<>> /\ last.log[1] = "scavenge"

\* C8: for every heap configuration, alloc of an object whose payload size
\* exceeds 32768 bytes fails in that alloc call with TooLarge; such an
\* object is never placed in Eden.
C8_OversizeAllocFails ==
    /\ (last.op = "alloc" /\ last.size > 32768) => last.res = "TooLarge"
    /\ \A i \in 1..Len(bump.roots) : bump.roots[i].size <= 32768

\* C9: during scavenge, when the old-region allocation for a survivor fails,
\* a major cycle runs and the allocation is retried exactly once;
\* OldOutOfSpace is raised only if that retry fails, and only inside a
\* scavenge, never by a dereference or a release.
C9_RetryOnceThenFatal ==
    /\ \A i \in 1..Len(last.log) :
          last.log[i] = "alloc_failed" =>
              /\ i + 2 <= Len(last.log)
              /\ last.log[i + 1] = "major"
              /\ last.log[i + 2] \in {"retry_ok", "retry_failed"}
              /\ i + 3 <= Len(last.log) =>
                    last.log[i + 3] \notin {"major", "retry_ok", "retry_failed"}
    /\ \A i \in 1..Len(last.log) :
          last.log[i] \in {"retry_ok", "retry_failed"} =>
              i > 2 /\ last.log[i - 2] = "alloc_failed"
    /\ fatal = "OldOutOfSpace" <=>
          (last.log # <<>> /\ last.log[Len(last.log)] = "retry_failed")
    /\ fatal = "OldOutOfSpace" =>
          /\ last.op \in {"alloc", "scavenge"}
          /\ last.log[1] = "scavenge"

\* a manual scavenge whose promotion failed, ran major, retried and panicked
C9_Witness ==
    /\ fatal = "OldOutOfSpace" /\ last.op = "scavenge"
    /\ \E i \in 1..Len(last.log) : last.log[i] = "alloc_failed"

\* C10: a sweep, and so a major cycle, removes every descriptor that lives
\* in the old region and is not rooted and pushes its payload address onto
\* the recycled stack of its own class exactly once, retaining all others
\* (alloc h, scavenge, release h, major: the descriptor is gone and the stack
\* of h's class has one more entry); in SweepHeap an allocation that was
\* never rooted is no longer contained after collect().
C10_SweepReclaimsUnrooted ==
    [][/\ last'.op = "major" =>
            LET dead(d) == d.heap.tag = "Intermediate" /\ ~d.rooted
                live(d) == ~dead(d)
                freed(k) == SelectSeq(bump.roots,
                                      LAMBDA d : dead(d) /\ d.heap.pocket = ClassSeq[k])
            IN /\ bump'.roots = SelectSeq(bump.roots, live)
               /\ \A k \in 1..6 :
                     bump'.intermediate.pockets[k] =
                        bump.intermediate.pockets[k]
                           \o [i \in 1..Len(freed(k)) |-> freed(k)[i].value]
       /\ last'.op = "scollect" =>
            \A id \in (DOMAIN sweep.white) \cup (DOMAIN sweep.grey) \cup (DOMAIN sweep.black) :
                (\A r \in 1..Len(sweep.roots) : sweep.roots[r] # id) =>
                    /\ id \notin DOMAIN sweep'.white
                    /\ id \notin DOMAIN sweep'.grey
                    /\ id \notin DOMAIN sweep'.black]_vars

\* alloc h of a word, scavenge, release h, major: registry empty, one
\* address on the 32-byte class's stack
C10_Witness ==
    /\ last.op = "major"
    /\ Len(expect) = 1 /\ expect[1].size = 8 /\ handles = {}
    /\ bump.roots = <<>>
    /\ Len(bump.intermediate.pockets[2]) = 1

\* C11: a sweep / collect never removes a rooted object and never pushes its
\* address onto a recycled stack: in SweepHeap, once root(id) has succeeded
\* on an allocation, contains(id) stays true and the stored value stays
\* readable after any number of collect() calls.
C11_RootedSurvivesCollect ==
    kind = "SweepHeap" =>
        \A r \in 1..Len(sweep.roots) :
            /\ \/ sweep.roots[r] \in DOMAIN sweep.white
               \/ sweep.roots[r] \in DOMAIN sweep.grey
               \/ sweep.roots[r] \in DOMAIN sweep.black
            /\ (last.op = "sget" /\ last.id = sweep.roots[r] /\ last.size = 8)
                  => last.res = "ok"

\* C12: if every handle is released before the next alloc is made, any
\* number of allocs of a fixed-size object that fits Eden completes without
\* a fatal error, no object is ever promoted (the old region's bump frontier
\* and class stacks stay as constructed), after the last release no
\* descriptor is rooted, and one scavenge leaves the registry and Eden empty.
C12_ChurnNeverPromotes ==
    /\ fatal = "none"
    /\ bump.intermediate.current = bump.young_end + 1
    /\ \A k \in 1..6 : bump.intermediate.pockets[k] = <<>>
    /\ \A i \in 1..Len(bump.roots) : bump.roots[i].heap.tag = "Eden"
    /\ handles = {} => \A i \in 1..Len(bump.roots) : ~bump.roots[i].rooted
    /\ (last.op = "scavenge" \/ last.snap.ran) => last.snap.roots = <<>> /\ last.snap.eden = {}
    /\ last.op = "scavenge" =>
          /\ bump.roots = <<>>
          /\ bump.young_current = bump.young_start
          /\ \A e \in mem : e.hi <= bump.young_start \/ e.lo >= bump.young_end

\* MaxChurn word allocs into an Eden of one word, each released at once,
\* then a scavenge
C12_Witness ==
    /\ Len(expect) = MaxChurn /\ handles = {}
    /\ expect[1].size = 8 /\ bump.young_end - bump.young_start = 8
    /\ last.op = "scavenge" /\ bump.roots = <<>>

\* C13: major is idempotent: a major that directly follows a major leaves
\* the registry, every descriptor's value and heap, the old bump frontier
\* and the class stacks exactly as the first major left them.
C13_MajorIdempotent ==
    [][(last.op = "major" /\ last'.op = "major") =>
          /\ bump'.roots = bump.roots
          /\ bump'.intermediate.current = bump.intermediate.current
          /\ bump'.intermediate.pockets = bump.intermediate.pockets
          /\ mem' = mem /\ fatal' = fatal]_vars

\* alloc of a word, scavenge, release, major, major: the slot was reclaimed
\* once and the registry is empty
C13_Witness ==
    /\ last.op = "major" /\ cycles = 3
    /\ Len(expect) = 1 /\ expect[1].size = 8 /\ handles = {}
    /\ bump.roots = <<>>
    /\ Len(bump.intermediate.pockets[2]) = 1

\* the sum of the pocket sizes of the old-region descriptors of a registry
RECURSIVE SurvivorBytes(_)
SurvivorBytes(rs) ==
    IF rs = <<>> THEN 0
    ELSE (IF Head(rs).heap.tag = "Intermediate" THEN Head(rs).heap.pocket ELSE 0)
         + SurvivorBytes(Tail(rs))

\* C14: after any major cycle in which compaction runs (the sweep leaves
\* less than half of the old region bump-carved, so the fragmentation metric
\* exceeds 0.50), all six class stacks are empty, the old bump frontier
\* equals the region start plus the sum of the pocket sizes of the surviving
\* old-region descriptors, and each survivor points into the compacted range.
C14_CompactionResetsOldRegion ==
    [][(/\ last'.op = "major"
        /\ 2 * (bump.intermediate.current - bump.intermediate.start)
              < bump.intermediate.size) =>
          /\ \A k \in 1..6 : bump'.intermediate.pockets[k] = <<>>
          /\ bump'.intermediate.current
                = bump'.intermediate.start + SurvivorBytes(bump'.roots)
          /\ \A i \in 1..Len(bump'.roots) :
                bump'.roots[i].heap.tag = "Intermediate" =>
                    /\ bump'.roots[i].value >= bump'.intermediate.start
                    /\ bump'.roots[i].value + bump'.roots[i].heap.pocket
                          <= bump'.intermediate.current]_vars

\* the ids SweepHeap holds in one of its three maps
LiveIds(h) == (DOMAIN h.white) \cup (DOMAIN h.grey) \cup (DOMAIN h.black)

\* C15: SweepHeap round trip: for a live id, a get that directly follows a
\* successful write(id, x) with x of the allocation's stored size returns x
\* and the id is still contained; directly after alloc(data) returns id,
\* contains(id) is true and get(id) returns data.
C15_WriteGetRoundTrip ==
    [][/\ (/\ last.op = "swrite" /\ last.res = "ok"
           /\ last'.op = "sget" /\ last'.id = last.id /\ last'.size = last.size
           /\ last.id \in DOMAIN sweep.white /\ sweep.white[last.id].size = last.size) =>
              /\ last'.res = "ok"
              /\ last'.read = last.read
              /\ last.id \in LiveIds(sweep')
       /\ (last'.op = "salloc" /\ last'.res = "ok") => last'.id \in LiveIds(sweep')
       /\ (/\ last.op = "salloc" /\ last.res = "ok"
           /\ last'.op = "sget" /\ last'.id = last.id /\ last'.size = last.size) =>
              /\ last'.res = "ok"
              /\ last'.read = {expect[Len(expect)].val}]_vars

\* a get that returned the bytes a write stored
C15_Witness ==
    /\ last.op = "sget" /\ last.res = "ok" /\ last.size = 8
    /\ last.read = {PoisonByte}

\* C16: SweepHeap get, write and root on an id that is not a live
\* allocation (never returned by alloc, or already collected) return
\* NoAllocationFound and leave the allocation maps, the roots list, the
\* free list and the stored bytes unchanged.
C16_UnknownIdIsRejected ==
    [][(/\ last'.op \in {"sget", "swrite", "sroot"}
        /\ last'.id \notin DOMAIN sweep.white
        /\ last'.id \notin DOMAIN sweep.grey
        /\ last'.id \notin DOMAIN sweep.black) =>
          /\ last'.res = "NoAllocationFound"
          /\ sweep' = sweep
          /\ mem' = mem
          /\ fatal' = fatal]_vars

\* a write to an id that alloc returned and a collect has removed
C16_Witness ==
    /\ last.op = "swrite" /\ last.res = "NoAllocationFound"
    /\ last.id < sweep.next_id
    /\ sweep.white = <<>> /\ sweep.free_list.pockets[2] # <<>>

\* C17: SweepHeap get::<T>(id) on a live id returns SizeMisalign whenever
\* the size of T differs from the size recorded at allocation, and returns
\* the stored value only when the sizes are equal; in both cases the heap
\* state is unchanged.
C17_GetChecksSize ==
    [][(last'.op = "sget" /\ last'.id \in DOMAIN sweep.white) =>
          /\ IF sweep.white[last'.id].size # last'.size
             THEN last'.res = "SizeMisalign" /\ last'.read = {}
             ELSE /\ last'.res = "ok"
                  /\ last'.read =
                        {e.val : e \in {x \in mem :
                              /\ x.lo < sweep.white[last'.id].ptr + last'.size
                              /\ x.hi > sweep.white[last'.id].ptr}}
                  /\ last'.read # {}
          /\ sweep' = sweep
          /\ mem' = mem
          /\ fatal' = fatal]_vars

\* a get with a T larger than the recorded size
C17_Witness ==
    /\ last.op = "sget" /\ last.res = "SizeMisalign"
    /\ last.id \in DOMAIN sweep.white
    /\ sweep.white[last.id].size < last.size

\* the index of the class a request of s bytes resolves to
ClassIndex(s) == CHOOSE k \in 1..6 : ClassSeq[k] = SmallestClass(s)

\* C18: FreeList.alloc(size) is recycled-first: whenever the recycled stack
\* of the resolved class is non-empty it pops and returns the most recently
\* reclaimed address of that class and leaves the bump frontier unchanged;
\* it carves from the bump frontier only when that stack is empty.
C18_AllocIsRecycledFirst ==
    [][(last'.op = "salloc" /\ last'.size \in 1..32768) =>
          LET stack == sweep.free_list.pockets[ClassIndex(last'.size)]
          IN /\ stack # <<>> =>
                   /\ last'.res = "ok"
                   /\ sweep'.white[last'.id].ptr = stack[Len(stack)]
                   /\ sweep'.free_list.pockets[ClassIndex(last'.size)]
                         = SubSeq(stack, 1, Len(stack) - 1)
                   /\ sweep'.free_list.current = sweep.free_list.current
             /\ sweep'.free_list.current # sweep.free_list.current => stack = <<>>]_vars

\* C19: with an empty recycled stack for the resolved class, FreeList.alloc
\* carves a slot from the bump frontier exactly when
\* current + class_size <= start + region_size, the exact fit included, and
\* returns absent otherwise; so a region of k * class_size bytes yields
\* exactly k bump slots and the frontier never passes start + region_size.
C19_BumpCarvesUpToRegionEnd ==
    [][(/\ last'.op = "salloc" /\ last'.size \in 1..32768
        /\ sweep.free_list.pockets[ClassIndex(last'.size)] = <<>>) =>
          /\ IF sweep.free_list.current + SmallestClass(last'.size)
                   <= sweep.free_list.start + sweep.free_list.size
             THEN /\ last'.res = "ok"
                  /\ sweep'.white[last'.id].ptr = sweep.free_list.current
                  /\ sweep'.free_list.current
                        = sweep.free_list.current + SmallestClass(last'.size)
             ELSE /\ last'.res = "None"
                  /\ sweep'.free_list.current = sweep.free_list.current
          /\ sweep'.free_list.current <= sweep.free_list.start + sweep.free_list.size]_vars

\* C20: collect runs sweep and then runs compact exactly when the
\* fragmentation metric 1 - (current - start) / region_size exceeds 0.50,
\* that is exactly when less than half of the region has been bump-carved.
C20_CompactWhenHalfUncarved ==
    [][last'.op = "scollect" =>
          /\ last'.log # <<>> /\ last'.log[1] = "sweep"
          /\ (\E i \in 1..Len(last'.log) : last'.log[i] = "compact")
                <=> (2 * (sweep.free_list.current - sweep.free_list.start)
                        < sweep.free_list.size)]_vars

\* C21: releasing a handle changes only its descriptor's rooted flag, from
\* true to false: the descriptor stays in the registry with value, heap, size
\* and color unchanged, no other descriptor changes, no heap region or
\* free-list state changes, and the descriptor remains until a scavenge or
\* a major removes it.
C21_ReleaseClearsRootedOnly ==
    [][/\ last'.op = "release" =>
            /\ Position(bump.roots, last'.id) # 0
            /\ bump.roots[Position(bump.roots, last'.id)].rooted
            /\ Len(bump'.roots) = Len(bump.roots)
            /\ \A i \in 1..Len(bump.roots) :
                  IF bump.roots[i].id = last'.id
                  THEN bump'.roots[i] = [bump.roots[i] EXCEPT !.rooted = FALSE]
                  ELSE bump'.roots[i] = bump.roots[i]
            /\ [bump' EXCEPT !.roots = <<>>] = [bump EXCEPT !.roots = <<>>]
            /\ mem' = mem /\ fatal' = fatal
       /\ (/\ kind = "BumpHeap"
           /\ ~(\E i \in 1..Len(last'.log) : last'.log[i] \in {"scavenge", "major"})) =>
            \A i \in 1..Len(bump.roots) :
                ~bump.roots[i].rooted => Position(bump'.roots, bump.roots[i].id) # 0]_vars

\* two objects allocated, one promoted by a scavenge, the promoted one
\* released: its descriptor is in the registry, unrooted, still Intermediate
C21_Witness ==
    /\ last.op = "release"
    /\ Position(bump.roots, last.id) # 0
    /\ ~bump.roots[Position(bump.roots, last.id)].rooted
    /\ bump.roots[Position(bump.roots, last.id)].heap.tag = "Intermediate"
    /\ Len(bump.roots) = 2

\* C22: when young.current + s <= young.end, alloc of an object of size s
\* runs no collection, places the payload at the old value p of
\* young.current, advances young.current by exactly s, appends exactly one
\* descriptor {value = p, rooted = true, color = White, heap = Eden,
\* size = s} to the registry, and leaves every existing descriptor and the
\* old region unchanged.
C22_AllocFastPath ==
    [][(last'.op = "alloc" /\ bump.young_current + last'.size <= bump.young_end) =>
          /\ last'.res = "ok" /\ last'.log = <<>> /\ ~last'.snap.ran
          /\ bump'.young_current = bump.young_current + last'.size
          /\ Bytes(mem', bump.young_current, last'.size)
                = (IF last'.size = 0 THEN {} ELSE {expect'[last'.id].val})
          /\ Clear(mem', bump.young_current, bump.young_current + last'.size)
                = Clear(mem, bump.young_current, bump.young_current + last'.size)
          /\ Len(bump'.roots) = Len(bump.roots) + 1
          /\ SubSeq(bump'.roots, 1, Len(bump.roots)) = bump.roots
          /\ bump'.roots[Len(bump'.roots)] =
                [id |-> last'.id, value |-> bump.young_current, rooted |-> TRUE,
                 color |-> "White", heap |-> [tag |-> "Eden", pocket |-> 0],
                 size |-> last'.size]
          /\ bump'.intermediate = bump.intermediate
          /\ bump'.young_start = bump.young_start /\ bump'.young_end = bump.young_end
          /\ handles' = handles \cup {last'.id}
          /\ fatal' = fatal]_vars

\* a second one-byte alloc placed behind the first, without a scavenge
C22_Witness ==
    /\ last.op = "alloc" /\ last.res = "ok" /\ last.log = <<>>
    /\ last.size = 1 /\ Len(bump.roots) = 2
    /\ bump.roots[1].heap.tag = "Eden" /\ bump.roots[1].size = 1
    /\ bump.roots[2].value = bump.young_start + 1
    /\ bump.young_current = bump.young_start + 2

\* the registry indices of the descriptors whose payload is in Eden
EdenRoots == {i \in 1..Len(bump.roots) : bump.roots[i].heap.tag = "Eden"}

\* C23: in every state between public operations,
\* young.start <= young.current <= young.end, and every Eden payload occupies
\* a range [p, p + size) that lies inside [young.start, young.end) and does
\* not overlap any other Eden payload.
C23_EdenPayloadsDisjoint ==
    kind = "BumpHeap" =>
        /\ bump.young_start <= bump.young_current
        /\ bump.young_current <= bump.young_end
        /\ \A i \in EdenRoots :
              /\ bump.young_start <= bump.roots[i].value
              /\ bump.roots[i].value + bump.roots[i].size <= bump.young_end
        /\ \A i, j \in EdenRoots :
              i # j => \/ bump.roots[i].value + bump.roots[i].size <= bump.roots[j].value
                       \/ bump.roots[j].value + bump.roots[j].size <= bump.roots[i].value

\* two one-byte payloads next to each other in Eden
C23_Witness ==
    /\ kind = "BumpHeap" /\ Len(bump.roots) = 2 /\ EdenRoots = {1, 2}
    /\ bump.roots[1].size = 1 /\ bump.roots[2].size = 1
    /\ bump.roots[2].value = bump.roots[1].value + 1

\* the free list of the heap the client constructed
TheFreeList == IF kind = "BumpHeap" THEN bump.intermediate ELSE sweep.free_list
\* the places (class index, depth) of the entries of the recycled stacks
StackPlaces(fl) == UNION {{<<k, i>> : i \in 1..Len(fl.pockets[k])} : k \in 1..6}
\* the addresses the registry descriptors, or the live weights, point at
LiveLocations ==
    IF kind = "BumpHeap" THEN {bump.roots[i].value : i \in 1..Len(bump.roots)}
    ELSE {GetWeight(sweep, id).ptr : id \in LiveIds(sweep)}

\* C24: in every reachable state, every address on a class's recycled stack
\* was originally bump-carved as a slot of exactly that class's size, appears
\* on at most one stack and at most once, and is not the current location of
\* any descriptor that is still in the registry.
C24_RecycledStacksSound ==
    kind \in {"BumpHeap", "SweepHeap"} =>
        /\ \A pl \in StackPlaces(TheFreeList) :
              /\ [ptr |-> TheFreeList.pockets[pl[1]][pl[2]], size |-> ClassSeq[pl[1]]]
                    \in TheFreeList.carved
              /\ TheFreeList.pockets[pl[1]][pl[2]] \notin LiveLocations
        /\ \A p1, p2 \in StackPlaces(TheFreeList) :
              p1 # p2 => TheFreeList.pockets[p1[1]][p1[2]] # TheFreeList.pockets[p2[1]][p2[2]]

\* a 64-byte SweepHeap whose only slot was reclaimed, handed out again by a
\* second alloc and reclaimed again: it is on the 32-byte stack once
C24_Witness ==
    /\ kind = "SweepHeap" /\ sweep.size = 2 * TINY_POCKET
    /\ sweep.next_id = 2 /\ sweep.white = <<>>
    /\ sweep.free_list.pockets[2] = <<sweep.start>>
    /\ sweep.free_list.carved = {[ptr |-> sweep.start, size |-> TINY_POCKET]}

\* the first position of a step in a log, 0 if it is not in it
FirstOf(log, step) ==
    IF \E i \in 1..Len(log) : log[i] = step
    THEN CHOOSE i \in 1..Len(log) : log[i] = step /\ \A j \in 1..(i - 1) : log[j] # step
    ELSE 0

\* C25: a handle released before a collection is reclaimable by that
\* collection, also by the major cycle a scavenge triggers on old-region
\* overflow: when a promotion fails for lack of old-region space while the
\* old region holds an object of the needed class whose handle was released
\* earlier, the triggered major reclaims that slot and the retried promotion
\* succeeds instead of aborting with OldOutOfSpace.
C25_TriggeredMajorReclaimsReleased ==
    [][(/\ FirstOf(last'.log, "alloc_failed") # 0
        /\ \E c \in ClassSizes :
              /\ \E i \in 1..Len(bump.roots) :
                    /\ ~bump.roots[i].rooted
                    /\ bump.roots[i].heap = [tag |-> "Intermediate", pocket |-> c]
              /\ \A j \in 1..Len(bump.roots) :
                    bump.roots[j].rooted =>
                        /\ bump.roots[j].size \in 1..32768
                        /\ SmallestClass(bump.roots[j].size) = c) =>
          /\ last'.log[FirstOf(last'.log, "alloc_failed") + 1] = "major"
          /\ last'.log[FirstOf(last'.log, "alloc_failed") + 2] = "retry_ok"]_vars

\* C26: scavenge promotes only Eden survivors: a rooted descriptor whose heap
\* is already Intermediate(c) before a scavenge has the same value address
\* and the same heap tag after it, and the scavenge allocates no old-region
\* slot for it.
C26_ScavengeLeavesOldInPlace ==
    [][/\ last'.snap.ran =>
            \A i \in 1..Len(bump.roots) :
                (bump.roots[i].rooted /\ bump.roots[i].heap.tag = "Intermediate") =>
                    /\ Position(last'.snap.roots, bump.roots[i].id) # 0
                    /\ last'.snap.roots[Position(last'.snap.roots, bump.roots[i].id)].value
                          = bump.roots[i].value
                    /\ last'.snap.roots[Position(last'.snap.roots, bump.roots[i].id)].heap
                          = bump.roots[i].heap
       /\ (/\ FirstOf(last'.log, "scavenge") # 0
           /\ \A i \in 1..Len(bump.roots) :
                 bump.roots[i].rooted => bump.roots[i].heap.tag = "Intermediate") =>
            /\ bump'.intermediate = bump.intermediate
            /\ fatal' # "OldOutOfSpace"]_vars

\* C27: no old-region slot is ever lost: in every state between public
\* operations, each slot that has been bump-carved from the old region is
\* either the current location of exactly one registry descriptor or is on
\* its class's recycled stack; a scavenge that drops an unrooted old-region
\* descriptor, or moves a descriptor out of an old-region slot, returns the
\* slot to its class stack.
C27_NoOldSlotLost ==
    (kind = "BumpHeap" /\ fatal = "none") =>
        \A s \in bump.intermediate.carved :
            LET holders == {i \in 1..Len(bump.roots) :
                               /\ bump.roots[i].heap.tag = "Intermediate"
                               /\ bump.roots[i].value = s.ptr}
                stack == bump.intermediate.pockets[ClassIndex(s.size)]
                on_stack == \E i \in 1..Len(stack) : stack[i] = s.ptr
            IN \/ Cardinality(holders) = 1 /\ ~on_stack
               \/ holders = {} /\ on_stack

\* one past the last byte of the block the allocator returned
ArenaEnd == arena.base + arena.size

\* C28: for every pair of option values, the Eden range
\* [young.start, young.end) and the old region
\* [old.start, old.start + old_size) constructed by BumpHeap::new are
\* disjoint and both lie inside the byte range obtained from the allocator
\* (the size of the requested layout), so every address alloc or the
\* old-region free list hands out, with the object's full extent, is inside
\* the allocated arena.
C28_RegionsInsideArena ==
    kind = "BumpHeap" =>
        /\ arena.base <= bump.young_start /\ bump.young_end <= ArenaEnd
        /\ arena.base <= bump.intermediate.start
        /\ bump.intermediate.start + bump.intermediate.size <= ArenaEnd
        /\ \/ bump.young_end <= bump.intermediate.start
           \/ bump.intermediate.start + bump.intermediate.size <= bump.young_start
        /\ \A i \in 1..Len(bump.roots) :
              /\ arena.base <= bump.roots[i].value
              /\ bump.roots[i].value + bump.roots[i].size <= ArenaEnd
              /\ bump.roots[i].value + bump.roots[i].heap.pocket <= ArenaEnd

\* C29: SweepHeap write(id, data) modifies only the bytes of the allocation
\* named by id: for every other live id' the value get(id') returns is the
\* same before and after the write, for every size of data, also one larger
\* than the size or the pocket recorded for id.
C29_WriteTouchesOnlyItsAllocation ==
    [][last'.op = "swrite" =>
          \A other \in LiveIds(sweep) \ {last'.id} :
              Bytes(mem', GetWeight(sweep', other).ptr, GetWeight(sweep', other).size)
                 = Bytes(mem, GetWeight(sweep, other).ptr, GetWeight(sweep, other).size)]_vars

====
